---- MODULE Spec2Model ----
(***************************************************************************)
(* Booking wizard of the Stripe-integrated blueprint (src/bookings.py):    *)
(* save_step, confirm_booking, create_payment_intent, pay and cancel over  *)
(* a persistent store of Booking and Payment rows, and the payment         *)
(* processor's PaymentIntent objects.                                      *)
(*                                                                         *)
(* Amounts.  A JSON number is held as an integer count of thousandths      *)
(* ("mills"): 15.5 is 15500.  total_amount, which the code rounds to two   *)
(* decimals, and Payment.amount are held in hundredths ("cents"); the      *)
(* processor's amounts are the integers the code passes to it.             *)
(*                                                                         *)
(* The user store of src/app4.py (users and password-reset tokens, in its  *)
(* in-memory form) is modelled beside it, with the clock in whole ticks,   *)
(* and the PDF upload of src/app.py, one file-system call a step, and the  *)
(* bookings of the Mongo-backed prototype src/app2.py, timed in seconds.   *)
(***************************************************************************)
EXTENDS Integers, Sequences, FiniteSets, TLC

VARIABLES bookings, payments, intents, last, inflight,
          users_memory, reset_tokens_memory, utcnow, issued, returned,
          UPLOAD_FOLDER, posts,
          mongo_bookings, inserted, now, reply

(* The state of the blueprint, and of the user store of src/app4.py. *)
blueprint_vars == <<bookings, payments, intents, last, inflight>>

app4_vars == <<users_memory, reset_tokens_memory, utcnow, issued, returned>>

(* The upload folder of src/app.py and the uploads under way. *)
app_vars == <<UPLOAD_FOLDER, posts>>

(* The bookings collection of the Mongo-backed prototype (src/app2.py),   *)
(* the ids drawn so far, its clock in seconds and its last response.       *)
app2_vars == <<mongo_bookings, inserted, now, reply>>

(* What the handlers of one program do not touch. *)
outside_blueprint == <<app4_vars, app_vars, app2_vars>>

outside_app4 == <<blueprint_vars, app_vars, app2_vars>>

outside_app == <<blueprint_vars, app4_vars, app2_vars>>

outside_app2 == <<blueprint_vars, app4_vars, app_vars>>

vars == <<blueprint_vars, app4_vars, app_vars, app2_vars>>

(* Bounds of the model. *)
MaxBookings == 1
MaxIntents == 1
MaxPayments == 2
MaxOwnBookings == 2
MaxRequests == 2

----------------------------------------------------------------------------
(* JSON values as the request carries them.  Every value has the same      *)
(* three fields; items is the sequence of key/value entries of an object.  *)

Leaf(kind, n) ==
    [kind |-> kind, n |-> n, items |-> <<>>]

Num(mills) ==
    Leaf("number", mills)

NumStr(mills) ==
    Leaf("numeric_string", mills)

Str ==
    Leaf("string", 0)

JNull ==
    Leaf("null", 0)

JTrue ==
    Leaf("bool", 1)

JList(len) ==
    Leaf("list", len)

Obj(items) ==
    [kind |-> "object", n |-> 0, items |-> items]

Entry(k, v) ==
    [key |-> k, val |-> v]

EmptyObj ==
    Obj(<<>>)

(* Python truthiness, as used by `x or default`. *)
Truthy(v) ==
    CASE v.kind = "number" -> v.n # 0
      [] v.kind = "numeric_string" -> TRUE
      [] v.kind = "string" -> TRUE
      [] v.kind = "null" -> FALSE
      [] v.kind = "bool" -> v.n = 1
      [] v.kind = "list" -> v.n > 0
      [] v.kind = "object" -> Len(v.items) > 0

OrDefault(v, d) ==
    IF Truthy(v) THEN v ELSE d

(* float(x): the value in mills, or the exception it raises. *)
Float(v) ==
    CASE v.kind = "number" -> [ok |-> TRUE, n |-> v.n]
      [] v.kind = "numeric_string" -> [ok |-> TRUE, n |-> v.n]
      [] v.kind = "bool" -> [ok |-> TRUE, n |-> v.n * 1000]
      [] OTHER -> [ok |-> FALSE, n |-> 0]

(* dict.get(key, default) on the entries of an object. *)
RECURSIVE DictGet(_, _, _)
DictGet(items, key, default) ==
    IF items = <<>> THEN default
    ELSE IF Head(items).key = key THEN Head(items).val
    ELSE DictGet(Tail(items), key, default)

(* round(x, 2) of an amount in mills, in cents.  The amounts of this model *)
(* never end in the digit 5, where Python's result depends on the binary   *)
(* representation of the sum.                                              *)
Round2(mills) ==
    (mills + 5) \div 10

----------------------------------------------------------------------------
(* Callers and rows. *)

Users ==
    {"alice", "bob"}

Anonymous ==
    "anonymous"

Callers ==
    Users \cup {Anonymous}

(* user_id of a booking no user is bound to (None). *)
NoUser ==
    "none"

is_authenticated(u) ==
    u # Anonymous

(* The column defaults of a new Booking row: empty slots, total 0, draft. *)
BookingDefaults ==
    [user_id |-> NoUser,
     search_data |-> JNull, selection_data |-> JNull, travelers_data |-> JNull,
     addons_data |-> JNull, review_data |-> JNull,
     total_amount |-> 0, status |-> "draft"]

(* Booking(user_id=current_user.id if current_user.is_authenticated else None) *)
NewBooking(u) ==
    [BookingDefaults EXCEPT !.user_id = IF is_authenticated(u) THEN u ELSE NoUser]

(* The Payment table takes every row added: no column of it is unique. *)
AddPayment(rows, p) ==
    Append(rows, p)

(* Payment(booking_id=..., amount=..., status='success', provider='stripe', txn_ref=...) *)
NewPayment(bid, amount, txn_ref) ==
    [booking_id |-> bid, amount |-> amount, status |-> "success",
     provider |-> "stripe", txn_ref |-> txn_ref]

STEP_TO_PAGE ==
    [s \in 0..4 |-> CASE s = 0 -> "booking1.html"
                      [] s = 1 -> "booking2.html"
                      [] s = 2 -> "booking3.html"
                      [] s = 3 -> "booking4.html"
                      [] s = 4 -> "checkout.html"]

(* The None that _next_url_for_step returns for a step the table lacks. *)
NoHint ==
    "null"

(* The hint with the last step taken to have no successor. *)
next_url_without_last_step(step) ==
    IF step \in 0..3 THEN STEP_TO_PAGE[step] ELSE NoHint

(* The page of the hint; the booking id it carries is the response's own. *)
next_url_for_step(step) ==
    IF step \in DOMAIN STEP_TO_PAGE THEN STEP_TO_PAGE[step] ELSE NoHint

----------------------------------------------------------------------------
(* _recompute_total *)

(* try: total += float(x or 0)  except Exception: skip *)
FloatOrSkip(v) ==
    LET f == Float(OrDefault(v, Num(0)))
    IN  IF f.ok THEN f.n ELSE 0

(* total += float(sel.get('price', 0) or 0); sel.get raises on a          *)
(* selection that is no mapping, inside the same try.                      *)
PriceTerm(selection_data) ==
    LET sel == OrDefault(selection_data, EmptyObj)
    IN  IF sel.kind = "object"
        THEN FloatOrSkip(DictGet(sel.items, "price", Num(0)))
        ELSE 0

(* The loop leaving after its first value. *)
SumFirstValue(items) ==
    IF items = <<>> THEN 0 ELSE FloatOrSkip(Head(items).val)

(* The loop ended, not continued, by a value float() rejects. *)
RECURSIVE SumUntilError(_)
SumUntilError(items) ==
    IF items = <<>> THEN 0
    ELSE LET f == Float(OrDefault(Head(items).val, Num(0)))
         IN  IF f.ok THEN f.n + SumUntilError(Tail(items)) ELSE 0

(* for v in addons.values(): total += float(v or 0), skipping what raises. *)
RECURSIVE SumValues(_)
SumValues(items) ==
    IF items = <<>> THEN 0
    ELSE FloatOrSkip(Head(items).val) + SumValues(Tail(items))

AddonsTerm(addons_data) ==
    LET addons == OrDefault(addons_data, EmptyObj)
    IN  IF addons.kind = "object" THEN SumValues(addons.items) ELSE 0

(* The new total_amount, in cents. *)
recompute_total(b) ==
    Round2(PriceTerm(b.selection_data) + AddonsTerm(b.addons_data))

(* The booking left with the total it had: the recomputation forgotten. *)
StaleTotal(b) ==
    b

Recomputed(b) ==
    [b EXCEPT !.total_amount = recompute_total(b)]

(* int(booking.total_amount * 100): among the totals the payloads of this  *)
(* model can add up to, the double product with 100 falls just below the   *)
(* integer for these (19.99 * 100 = 1998.9999999999998, 39.98 * 100 =      *)
(* 3997.9999999999995), and int() truncates.                               *)
TruncatedTotals ==
    {1999, 3998}

ToMinorUnits(total_amount) ==
    IF total_amount \in TruncatedTotals THEN total_amount - 1 ELSE total_amount

----------------------------------------------------------------------------
(* _attach_to_current_user_if_needed: the booking as it is committed and   *)
(* the value returned.                                                     *)
(* Binding without the ownership check that follows it. *)
attach_without_ownership_check(b, u) ==
    [ok |-> TRUE,
     b |-> IF is_authenticated(u) /\ b.user_id = NoUser THEN [b EXCEPT !.user_id = u] ELSE b]

(* The ownership check alone, binding nobody. *)
attach_never_binds(b, u) ==
    [ok |-> ~is_authenticated(u) \/ b.user_id \in {NoUser, u}, b |-> b]

attach_to_current_user_if_needed(b, u) ==
    IF is_authenticated(u)
    THEN LET b1 == IF b.user_id = NoUser THEN [b EXCEPT !.user_id = u] ELSE b
         IN  [ok |-> b1.user_id = u, b |-> b1]
    ELSE [ok |-> TRUE, b |-> b]

----------------------------------------------------------------------------
(* The operation served last and its response: the status code, the error *)
(* of an error body, and the page of next_url (the booking id the hint     *)
(* carries is the booking's own).                                          *)
Response(op, code, error, next_url) ==
    [op |-> op, code |-> code, error |-> error, next_url |-> next_url]

(* ---- src/app4.py: users and password-reset tokens ---- *)

MaxUsers == 2
MaxTokens == 3
MaxClock == 4

(* RESET_TOKEN_EXPIRY, in ticks of the clock (the code's default is 3600   *)
(* seconds).                                                               *)
RESET_TOKEN_EXPIRY == 2

(* Python's None, True and False as values a call returns. *)
None ==
    <<>>

True ==
    [bool |-> TRUE]

False ==
    [bool |-> FALSE]

(* werkzeug's hash: check_password_hash(generate_password_hash(p), q) is   *)
(* p = q.                                                                  *)
generate_password_hash(password) ==
    [hash_of |-> password]

(* str() of an integer id. *)
str(id) ==
    [digits |-> id]

(* secrets.token_urlsafe(32): the k-th draw, no two draws alike. *)
token_urlsafe(k) ==
    [urlsafe |-> k]

Emails ==
    {"test@test.com", "ann@zyra.com", "nobody@zyra.com"}

Returned(op, token, value) ==
    [op |-> op, token |-> token, value |-> value]

(* The user that loading the module stores. *)
init_test_user ==
    << [id |-> 1, email |-> "test@test.com", password |-> generate_password_hash("123")] >>

(* ---- src/app.py: PDF upload ---- *)

MaxFiles == 3

(* A file name is its stem in the pieces that "_" joins (the extension is  *)
(* .pdf throughout): a.pdf is <<"a">>, a_1.pdf is <<"a", 1>>.  A client    *)
(* may send it with a directory in front.                                  *)
Filenames ==
    { [dir |-> d, stem |-> n] : d \in {"", "../"}, n \in {<<"a">>, <<"a", 1>>} }

(* secure_filename: the directory part does not survive. *)
secure_filename(filename) ==
    filename.stem

FileContents ==
    {"x", "y"}

NoPost ==
    [pc |-> "idle", name |-> <<>>, final_name |-> <<>>, counter |-> 1, file |-> ""]

(* ---- src/app2.py: bookings of the Mongo-backed prototype ---- *)

MaxInserted == 2

(* Seconds after its creation from which a booking that is not cancelled   *)
(* can no longer be deleted.                                               *)
DELETE_WINDOW == 600

(* The readings of datetime.utcnow() at which requests arrive. *)
Instants ==
    {0, 1, DELETE_WINDOW - 1, DELETE_WINDOW, DELETE_WINDOW + 1}

datetime(seconds) ==
    [seconds |-> seconds]

(* The users collection. *)
mongo_users ==
    {"ann@zyra.com"}

(* Bodies of POST /bookings: valid throughout but for a missing            *)
(* destination, for a user that exists or not.                             *)
BookingBodies ==
    { [email |-> e, destination |-> d] :
         e \in {"ann@zyra.com", "nobody@zyra.com"}, d \in {"Paris", ""} }

(* The ids a path may carry: that of the k-th document inserted, one of no *)
(* document (k = 0), and one that is no ObjectId.                          *)
IdStrings ==
    { [hex |-> TRUE, oid |-> k] : k \in 0..MaxInserted } \cup { [hex |-> FALSE, oid |-> 0] }

get_object_id(id_str) ==
    IF id_str.hex THEN [oid |-> id_str.oid] ELSE None

Reply(op, code, message) ==
    [op |-> op, code |-> code, message |-> message]

(* The requests that may be under way at once, each in a session of its   *)
(* own; a request served in one piece never shows here.                    *)
Reqs ==
    1..MaxRequests

(* No request under way in the session. *)
Idle ==
    [pc |-> "idle", u |-> Anonymous, bid |-> 0, step |-> 0, data |-> JNull,
     view |-> BookingDefaults]

Init ==
    /\ bookings = <<>>
    /\ payments = <<>>
    /\ intents = <<>>
    /\ last = Response("none", 0, "", NoHint)
    /\ inflight = [r \in Reqs |-> Idle]
    /\ users_memory = init_test_user
    /\ reset_tokens_memory = <<>>
    /\ utcnow = 0
    /\ issued = 0
    /\ returned = Returned("none", None, None)
    /\ UPLOAD_FOLDER = [final_name \in {} |-> ""]
    /\ posts = [r \in Reqs |-> NoPost]
    /\ mongo_bookings = {}
    /\ inserted = 0
    /\ now = 0
    /\ reply = Reply("none", 0, "")

(* Booking.query.get_or_404(booking_id) finds a row. *)
Found(bid) ==
    bid \in 1..Len(bookings)

(* A new selection taking the add-ons chosen for the old one with it. *)
WithSlot_dropping_addons(b, step, data) ==
    CASE step = 0 -> [b EXCEPT !.search_data = data]
      [] step = 1 -> [b EXCEPT !.selection_data = data, !.addons_data = JNull]
      [] step = 2 -> [b EXCEPT !.travelers_data = data]
      [] step = 3 -> [b EXCEPT !.addons_data = data]
      [] step = 4 -> [b EXCEPT !.review_data = data]

(* The slot a step writes (save_step's if/elif chain). *)
WithSlot(b, step, data) ==
    CASE step = 0 -> [b EXCEPT !.search_data = data]
      [] step = 1 -> [b EXCEPT !.selection_data = data]
      [] step = 2 -> [b EXCEPT !.travelers_data = data]
      [] step = 3 -> [b EXCEPT !.addons_data = data]
      [] step = 4 -> [b EXCEPT !.review_data = data]

(* save_step taking a step beyond the last for the last. *)
save_step_clamped(u, bid, step, data) ==
    /\ UNCHANGED <<payments, intents>>
    /\ IF bid # 0 /\ ~Found(bid)
       THEN /\ UNCHANGED bookings
            /\ last' = Response("save_step", 404, "Not Found", NoHint)
       ELSE LET id == IF bid = 0 THEN Len(bookings) + 1 ELSE bid
                stored == IF bid = 0 THEN Append(bookings, NewBooking(u)) ELSE bookings
                att == attach_to_current_user_if_needed(stored[id], u)
                slot == IF step > 4 THEN 4 ELSE step
            IN  IF ~att.ok
                THEN /\ bookings' = stored
                     /\ last' = Response("save_step", 403, "Forbidden", NoHint)
                ELSE /\ bookings' = [stored EXCEPT
                                       ![id] = Recomputed(WithSlot(att.b, slot, data))]
                     /\ last' = Response("save_step", 200, "", next_url_for_step(slot))

(* POST /api/bookings/step/<step>, open to anonymous callers.  booking_id  *)
(* 0 stands for a request without booking_id.                              *)
save_step(u, bid, step, data) ==
    /\ UNCHANGED <<payments, intents>>
    /\ IF bid # 0 /\ ~Found(bid)
       THEN /\ UNCHANGED bookings
            /\ last' = Response("save_step", 404, "Not Found", NoHint)
       ELSE LET id == IF bid = 0 THEN Len(bookings) + 1 ELSE bid
                stored == IF bid = 0 THEN Append(bookings, NewBooking(u)) ELSE bookings
                att == attach_to_current_user_if_needed(stored[id], u)
            IN  IF ~att.ok
                THEN /\ bookings' = stored
                     /\ last' = Response("save_step", 403, "Forbidden", NoHint)
                ELSE IF step \notin 0..4
                THEN /\ bookings' = [stored EXCEPT ![id] = att.b]
                     /\ last' = Response("save_step", 400, "Invalid step", NoHint)
                ELSE /\ bookings' = [stored EXCEPT
                                       ![id] = Recomputed(WithSlot(att.b, step, data))]
                     /\ last' = Response("save_step", 200, "", next_url_for_step(step))

(* The checks without the one of @login_required. *)
Rejection_without_login(u, bid) ==
    IF ~Found(bid) THEN [code |-> 404, error |-> "Not Found"]
    ELSE IF ~attach_to_current_user_if_needed(bookings[bid], u).ok
    THEN [code |-> 403, error |-> "Forbidden"]
    ELSE [code |-> 0, error |-> ""]

(* The part common to the four operations behind @login_required:          *)
(* 401 for an anonymous caller, 404 for an unknown booking, 403 from       *)
(* _attach_to_current_user_if_needed.                                      *)
Rejection(u, bid) ==
    IF ~is_authenticated(u) THEN [code |-> 401, error |-> "Unauthorized"]
    ELSE IF ~Found(bid) THEN [code |-> 404, error |-> "Not Found"]
    ELSE IF ~attach_to_current_user_if_needed(bookings[bid], u).ok
    THEN [code |-> 403, error |-> "Forbidden"]
    ELSE [code |-> 0, error |-> ""]

(* confirm marking the booking confirmed, as pay does. *)
confirm_marks_confirmed(u, bid) ==
    LET rej == Rejection(u, bid)
    IN  /\ UNCHANGED <<payments, intents>>
        /\ IF rej.code # 0
           THEN /\ UNCHANGED bookings
                /\ last' = Response("confirm", rej.code, rej.error, NoHint)
           ELSE LET b == attach_to_current_user_if_needed(bookings[bid], u).b
                IN  /\ bookings' = [bookings EXCEPT
                                      ![bid] = Recomputed([b EXCEPT !.status = "confirmed"])]
                    /\ last' = Response("confirm", 200, "", "checkout.html")

(* POST /api/bookings/confirm *)
confirm_booking(u, bid) ==
    LET rej == Rejection(u, bid)
    IN  /\ UNCHANGED <<payments, intents>>
        /\ IF rej.code # 0
           THEN /\ UNCHANGED bookings
                /\ last' = Response("confirm", rej.code, rej.error, NoHint)
           ELSE LET b == attach_to_current_user_if_needed(bookings[bid], u).b
                IN  /\ bookings' = [bookings EXCEPT
                                      ![bid] = Recomputed([b EXCEPT !.status = "in_progress"])]
                    /\ last' = Response("confirm", 200, "", "checkout.html")

(* cancel refusing a booking that is already paid for. *)
cancel_unless_confirmed(u, bid) ==
    LET rej == Rejection(u, bid)
    IN  /\ UNCHANGED <<payments, intents>>
        /\ IF rej.code # 0
           THEN /\ UNCHANGED bookings
                /\ last' = Response("cancel", rej.code, rej.error, NoHint)
           ELSE LET b == attach_to_current_user_if_needed(bookings[bid], u).b
                IN  IF b.status = "confirmed"
                    THEN /\ bookings' = [bookings EXCEPT ![bid] = b]
                         /\ last' = Response("cancel", 400, "Already confirmed", NoHint)
                    ELSE /\ bookings' = [bookings EXCEPT
                                            ![bid] = [b EXCEPT !.status = "cancelled"]]
                         /\ last' = Response("cancel", 200, "", NoHint)

(* POST /api/bookings/cancel *)
cancel(u, bid) ==
    LET rej == Rejection(u, bid)
    IN  /\ UNCHANGED <<payments, intents>>
        /\ IF rej.code # 0
           THEN /\ UNCHANGED bookings
                /\ last' = Response("cancel", rej.code, rej.error, NoHint)
           ELSE LET b == attach_to_current_user_if_needed(bookings[bid], u).b
                IN  /\ bookings' = [bookings EXCEPT ![bid] = [b EXCEPT !.status = "cancelled"]]
                    /\ last' = Response("cancel", 200, "", NoHint)

----------------------------------------------------------------------------
(* The payment processor.  An intent is created without a payment method;  *)
(* the customer's browser then attaches one (requires_confirmation) or     *)
(* confirms it itself (succeeded), possibly after an authentication step   *)
(* (requires_action).                                                      *)

NewIntent(amount, bid) ==
    [amount |-> amount, booking_id |-> bid, status |-> "requires_payment_method"]

customer_action(pi, status) ==
    /\ pi \in 1..Len(intents)
    /\ intents[pi].status \in {"requires_payment_method", "requires_action"}
    /\ status \in {"requires_confirmation", "succeeded"}
    /\ intents[pi].status = "requires_action" => status = "succeeded"
    /\ intents' = [intents EXCEPT ![pi].status = status]
    /\ UNCHANGED <<bookings, payments, last>>

(* POST /api/bookings/create-payment-intent; outcome is the processor's    *)
(* answer to PaymentIntent.create.  The recomputed total is not committed. *)
create_payment_intent(u, bid, outcome) ==
    LET rej == Rejection(u, bid)
    IN  /\ UNCHANGED payments
        /\ IF rej.code # 0
           THEN /\ UNCHANGED <<bookings, intents>>
                /\ last' = Response("create_payment_intent", rej.code, rej.error, NoHint)
           ELSE LET b == attach_to_current_user_if_needed(bookings[bid], u).b
                    total == recompute_total(b)
                IN  /\ bookings' = [bookings EXCEPT ![bid] = b]
                    /\ IF outcome = "created"
                       THEN /\ Len(intents) < MaxIntents
                            /\ intents' = Append(intents, NewIntent(ToMinorUnits(total), bid))
                            /\ last' = Response("create_payment_intent", 200, "", NoHint)
                       ELSE /\ UNCHANGED intents
                            /\ last' = Response("create_payment_intent", 400,
                                                "provider error", NoHint)

(* Every status but canceled let through to the confirmation. *)
PayableOrPending ==
    {"requires_confirmation", "succeeded", "requires_action", "requires_payment_method"}

(* The statuses of an intent that pay goes on with; every other is         *)
(* "Payment not ready".                                                    *)
PayableStatuses ==
    {"requires_confirmation", "succeeded"}

(* POST /api/bookings/pay; outcome is the processor's answer to            *)
(* PaymentIntent.confirm, asked only of an intent in requires_confirmation.*)
(* Of a failed request only the owner bound by                             *)
(* _attach_to_current_user_if_needed is committed.                         *)
pay(u, bid, pi, outcome) ==
    LET rej == Rejection(u, bid)
        fail(code, error) == Response("pay", code, error, NoHint)
    IN  IF rej.code # 0
        THEN /\ UNCHANGED <<bookings, payments, intents>>
             /\ last' = fail(rej.code, rej.error)
        ELSE LET b == attach_to_current_user_if_needed(bookings[bid], u).b
                 total == recompute_total(b)
                 bound == [bookings EXCEPT ![bid] = b]
             IN  IF pi \notin 1..Len(intents)
                 THEN /\ bookings' = bound
                      /\ UNCHANGED <<payments, intents>>
                      /\ last' = fail(400, "provider error")
                 ELSE IF intents[pi].status \notin PayableStatuses
                 THEN /\ bookings' = bound
                      /\ UNCHANGED <<payments, intents>>
                      /\ last' = fail(400, "Payment not ready")
                 ELSE IF intents[pi].status = "requires_confirmation" /\ outcome = "error"
                 THEN /\ bookings' = bound
                      /\ intents' = [intents EXCEPT ![pi].status = "requires_payment_method"]
                      /\ UNCHANGED payments
                      /\ last' = fail(400, "provider error")
                 ELSE IF intents[pi].status = "requires_confirmation" /\ outcome # "succeeded"
                 THEN /\ bookings' = bound
                      /\ intents' = [intents EXCEPT ![pi].status = outcome]
                      /\ UNCHANGED payments
                      /\ last' = fail(400, "Payment failed")
                 ELSE IF intents[pi].amount # ToMinorUnits(total)
                 THEN /\ bookings' = bound
                      /\ intents' = [intents EXCEPT ![pi].status = "succeeded"]
                      /\ UNCHANGED payments
                      /\ last' = fail(400, "Amount mismatch")
                 ELSE /\ Len(payments) < MaxPayments
                      /\ intents' = [intents EXCEPT ![pi].status = "succeeded"]
                      /\ payments' = AddPayment(payments, NewPayment(bid, total, pi))
                      /\ bookings' = [bookings EXCEPT
                                        ![bid] = [Recomputed(b) EXCEPT !.status = "confirmed"]]
                      /\ last' = Response("pay", 201, "", "dashboard.html")

----------------------------------------------------------------------------
(* Request payloads. *)

(* {price: 500} *)
SelA ==
    Obj(<<Entry("price", Num(500000))>>)

(* {price: 19.99} *)
SelB ==
    Obj(<<Entry("price", Num(19990))>>)

(* {meal: 20, insurance: 15.5} *)
AddA ==
    Obj(<<Entry("meal", Num(20000)), Entry("insurance", Num(15500))>>)

(* {addons: {meal: 20, insurance: 15.5}} *)
Nested ==
    Obj(<<Entry("addons", AddA)>>)

(* {price: "n/a", meal: "20", insurance: 15.5, tax: 1.126, lounge: true,   *)
(*  seats: [1, 2], notes: null}                                            *)
Mixed ==
    Obj(<<Entry("price", Str), Entry("meal", NumStr(20000)),
          Entry("insurance", Num(15500)), Entry("tax", Num(1126)),
          Entry("lounge", JTrue), Entry("seats", JList(2)), Entry("notes", JNull)>>)

(* [1, 2]: a payload that is no mapping *)
NotMap ==
    JList(2)

(* booking_id of a request: absent (0) while the table may grow to `most`  *)
(* rows, a stored booking, or an unknown id.                               *)
RequestIds(most) ==
    (IF Len(bookings) < most THEN {0} ELSE {}) \cup (1..(Len(bookings) + 1))

BookingIds ==
    RequestIds(MaxBookings)

(* payment_intent_id of a request: an intent of the processor or an        *)
(* unknown id.                                                             *)
IntentIds ==
    1..(Len(intents) + 1)

(* What PaymentIntent.confirm can answer; it is asked only of an intent in *)
(* requires_confirmation.                                                  *)
ConfirmOutcomes(pi) ==
    IF pi \in 1..Len(intents) /\ intents[pi].status = "requires_confirmation"
    THEN {"succeeded", "requires_action", "error"}
    ELSE {"succeeded"}

(* The requests of callers `callers`, with save_step's step and data drawn *)
(* from `steps` and `datas`, and the customer's actions at the processor.  *)
Requests(callers, steps, datas) ==
    \/ \E u \in callers, bid \in BookingIds, step \in steps, data \in datas :
          save_step(u, bid, step, data)
    \/ \E u \in callers, bid \in 1..(Len(bookings) + 1) : confirm_booking(u, bid)
    \/ \E u \in callers, bid \in 1..(Len(bookings) + 1), outcome \in {"created", "error"} :
          create_payment_intent(u, bid, outcome)
    \/ \E u \in callers, bid \in 1..(Len(bookings) + 1), pi \in IntentIds :
          \E outcome \in ConfirmOutcomes(pi) : pay(u, bid, pi, outcome)
    \/ \E u \in callers, bid \in 1..(Len(bookings) + 1) : cancel(u, bid)
    \/ \E pi \in 1..Len(intents), status \in {"requires_confirmation", "succeeded"} :
          customer_action(pi, status)

(* Two users and anonymous callers on bookings with one selection. *)
Next ==
    /\ UNCHANGED <<inflight, outside_blueprint>>
    /\ Requests(Callers, {1, 5}, {SelA})

Spec ==
    Init /\ [][Next]_vars

(* One user paying for bookings whose total changes between requests. *)
NextPay ==
    /\ UNCHANGED <<inflight, outside_blueprint>>
    /\ Requests({"alice"}, {1, 3}, {SelA, SelB, Mixed})

SpecPay ==
    Init /\ [][NextPay]_vars

(* The wizard alone, one user: every step, and every kind of payload in    *)
(* the two slots the total is computed from.                               *)
WizardData ==
    {JNull, SelA, SelB, AddA, Nested, Mixed, NotMap}

(* The step and data of the save_step requests: every payload for the    *)
(* two slots the total reads, one payload for the other steps and for a    *)
(* step out of range.                                                      *)
WizardRequests ==
    ({1, 3} \X WizardData) \cup ({0, 2, 4, 5} \X {SelA})

NextWizard ==
    /\ UNCHANGED <<inflight, outside_blueprint>>
    /\ \/ \E bid \in BookingIds, r \in WizardRequests : save_step("alice", bid, r[1], r[2])
       \/ \E bid \in 1..Len(bookings) : confirm_booking("alice", bid)
       \/ \E bid \in 1..Len(bookings) : cancel("alice", bid)

SpecWizard ==
    Init /\ [][NextWizard]_vars

(* One user through the whole life of a booking, writing every slot. *)
SlotRequests ==
    ({0, 2, 4} \X {SelA}) \cup ({1} \X {SelA, SelB}) \cup ({3} \X {AddA})

NextSlots ==
    /\ UNCHANGED <<inflight, outside_blueprint>>
    /\ \/ \E bid \in BookingIds, r \in SlotRequests : save_step("alice", bid, r[1], r[2])
       \/ \E bid \in 1..Len(bookings) : confirm_booking("alice", bid)
       \/ \E bid \in 1..Len(bookings), outcome \in {"created", "error"} :
             create_payment_intent("alice", bid, outcome)
       \/ \E bid \in 1..Len(bookings), pi \in IntentIds :
             \E outcome \in ConfirmOutcomes(pi) : pay("alice", bid, pi, outcome)
       \/ \E bid \in 1..Len(bookings) : cancel("alice", bid)
       \/ \E pi \in 1..Len(intents), status \in {"requires_confirmation", "succeeded"} :
             customer_action(pi, status)

SpecSlots ==
    Init /\ [][NextSlots]_vars

(* Three callers on two bookings. *)
NextOwn ==
    /\ UNCHANGED <<inflight, outside_blueprint>>
    /\ \/ \E u \in Callers, bid \in RequestIds(MaxOwnBookings), step \in {1, 5} :
             save_step(u, bid, step, SelA)
       \/ \E u \in Callers, bid \in 1..Len(bookings) : confirm_booking(u, bid)
       \/ \E u \in Callers, bid \in 1..Len(bookings), outcome \in {"created", "error"} :
             create_payment_intent(u, bid, outcome)
       \/ \E u \in Callers, bid \in 1..Len(bookings), pi \in IntentIds :
             \E outcome \in ConfirmOutcomes(pi) : pay(u, bid, pi, outcome)
       \/ \E u \in Callers, bid \in 1..Len(bookings) : cancel(u, bid)
       \/ \E pi \in 1..Len(intents), status \in {"requires_confirmation", "succeeded"} :
             customer_action(pi, status)

SpecOwn ==
    Init /\ [][NextOwn]_vars

----------------------------------------------------------------------------
(* save_step requests that overlap.  Each request works on the row as its  *)
(* own session has loaded it and reaches the table only where the code     *)
(* queries or commits; the steps of different requests interleave.         *)

(* db.session.commit(): the UPDATE of the columns whose value the request  *)
(* has changed since it loaded the row.                                    *)
Flushed(row, loaded, changed) ==
    [c \in DOMAIN row |-> IF changed[c] # loaded[c] THEN changed[c] ELSE row[c]]

(* Booking.query.get_or_404(booking_id), and the branch that               *)
(* _attach_to_current_user_if_needed takes on the row as loaded: the owner *)
(* is to be written, the caller is refused, or the caller may go on.       *)
get_or_404(r, u, bid, step, data) ==
    /\ inflight[r].pc = "idle"
    /\ Found(bid)
    /\ LET view == bookings[bid]
           req == [pc |-> "write", u |-> u, bid |-> bid, step |-> step, data |-> data,
                   view |-> view]
       IN  IF is_authenticated(u) /\ view.user_id = NoUser
           THEN /\ inflight' = [inflight EXCEPT ![r] = [req EXCEPT !.pc = "bind"]]
                /\ UNCHANGED last
           ELSE IF ~attach_to_current_user_if_needed(view, u).ok
           THEN /\ inflight' = inflight
                /\ last' = Response("save_step", 403, "Forbidden", NoHint)
           ELSE /\ inflight' = [inflight EXCEPT ![r] = req]
                /\ UNCHANGED last
    /\ UNCHANGED <<bookings, payments, intents>>

(* booking.user_id = current_user.id; db.session.commit(): the commit      *)
(* expires the row the session holds.                                      *)
attach_commit(r) ==
    LET q == inflight[r]
    IN  /\ q.pc = "bind"
        /\ bookings' = [bookings EXCEPT
                          ![q.bid] = Flushed(@, q.view, [q.view EXCEPT !.user_id = q.u])]
        /\ inflight' = [inflight EXCEPT ![r] = [q EXCEPT !.pc = "check", !.view = BookingDefaults]]
        /\ UNCHANGED <<payments, intents, last>>

(* if booking.user_id != current_user.id: the expired row is loaded anew.  *)
attach_check(r) ==
    LET q == inflight[r]
        view == bookings[q.bid]
    IN  /\ q.pc = "check"
        /\ IF view.user_id # q.u
           THEN /\ inflight' = [inflight EXCEPT ![r] = Idle]
                /\ last' = Response("save_step", 403, "Forbidden", NoHint)
           ELSE /\ inflight' = [inflight EXCEPT ![r] = [q EXCEPT !.pc = "write", !.view = view]]
                /\ UNCHANGED last
        /\ UNCHANGED <<bookings, payments, intents>>

(* The slot written and the total recomputed on the row the session holds, *)
(* then db.session.commit().                                               *)
save_step_commit(r) ==
    LET q == inflight[r]
    IN  /\ q.pc = "write"
        /\ inflight' = [inflight EXCEPT ![r] = Idle]
        /\ UNCHANGED <<payments, intents>>
        /\ IF q.step \notin 0..4
           THEN /\ UNCHANGED bookings
                /\ last' = Response("save_step", 400, "Invalid step", NoHint)
           ELSE /\ bookings' = [bookings EXCEPT
                                  ![q.bid] = Flushed(@, q.view,
                                                     Recomputed(WithSlot(q.view, q.step, q.data)))]
                /\ last' = Response("save_step", 200, "", next_url_for_step(q.step))

(* The steps and payloads of the overlapping requests. *)
RaceRequests ==
    {<<1, SelA>>, <<3, AddA>>, <<5, SelA>>}

(* An anonymous draft, made in one piece, and requests of two users on it. *)
NextRace ==
    /\ UNCHANGED outside_blueprint
    /\ \/ /\ 0 \in BookingIds
          /\ save_step(Anonymous, 0, 0, SelA)
          /\ UNCHANGED inflight
       \/ \E r \in Reqs, u \in Users, bid \in 1..Len(bookings), x \in RaceRequests :
             get_or_404(r, u, bid, x[1], x[2])
       \/ \E r \in Reqs : attach_commit(r)
       \/ \E r \in Reqs : attach_check(r)
       \/ \E r \in Reqs : save_step_commit(r)

SpecRace ==
    Init /\ [][NextRace]_vars

(* ---- src/app4.py: class User ---- *)

find_by_email(email) ==
    LET hits == SelectSeq(users_memory, LAMBDA user : user.email = email)
    IN  IF hits = <<>> THEN None ELSE hits[1]

create_user(email, password) ==
    /\ IF find_by_email(email) # None
          THEN /\ returned' = Returned("create_user", None, None)
               /\ UNCHANGED users_memory
          ELSE /\ Len(users_memory) < MaxUsers
               /\ LET user_id == Len(users_memory) + 1
                  IN  /\ users_memory' = Append(users_memory,
                            [id |-> user_id, email |-> email,
                             password |-> generate_password_hash(password)])
                      /\ returned' = Returned("create_user", None, [inserted_id |-> user_id])
    /\ UNCHANGED <<reset_tokens_memory, utcnow, issued>>

(* update_user(user_id, {'password': hashed}): the store afterwards. *)
update_user(user_id, hashed_password) ==
    [i \in 1..Len(users_memory) |->
        IF /\ str(users_memory[i].id) = user_id
           /\ \A j \in 1..(i - 1) : str(users_memory[j].id) # user_id
          THEN [users_memory[i] EXCEPT !.password = hashed_password]
          ELSE users_memory[i]]

(* update_user's return value. *)
user_updated(user_id) ==
    \E i \in 1..Len(users_memory) : str(users_memory[i].id) = user_id

(* A store that keeps every token. *)
keeping_every_token(tokens, email) ==
    tokens

(* The tokens of the other emails. *)
without_email(tokens, email) ==
    SelectSeq(tokens, LAMBDA t : t.email # email)

create_password_reset_token(email) ==
    LET user == find_by_email(email)
    IN  /\ IF user = None
              THEN /\ returned' = Returned("create_password_reset_token", None, None)
                   /\ UNCHANGED <<reset_tokens_memory, issued>>
              ELSE /\ issued < MaxTokens
                   /\ LET token == token_urlsafe(issued + 1)
                          kept == without_email(reset_tokens_memory, email)
                          token_data == [id |-> Len(kept) + 1,
                                         token |-> token,
                                         email |-> email,
                                         user_id |-> str(user.id),
                                         expiry |-> utcnow + RESET_TOKEN_EXPIRY,
                                         used |-> FALSE]
                      IN  /\ reset_tokens_memory' = Append(kept, token_data)
                          /\ issued' = issued + 1
                          /\ returned' = Returned("create_password_reset_token", None, token)
        /\ UNCHANGED <<users_memory, utcnow>>

(* A verification that does not look at the used mark. *)
verify_ignoring_used(token) ==
    LET hits == SelectSeq(reset_tokens_memory,
                          LAMBDA t : t.token = token /\ t.expiry > utcnow)
    IN  IF hits = <<>> THEN None ELSE hits[1]

verify_reset_token(token) ==
    LET hits == SelectSeq(reset_tokens_memory,
                          LAMBDA t : t.token = token /\ ~t.used /\ t.expiry > utcnow)
    IN  IF hits = <<>> THEN None ELSE hits[1]

(* A call of verify_reset_token. *)
verify(token) ==
    /\ returned' = Returned("verify_reset_token", token, verify_reset_token(token))
    /\ UNCHANGED <<users_memory, reset_tokens_memory, utcnow, issued>>

(* The first document of the token marked used. *)
marked_used(token) ==
    [i \in 1..Len(reset_tokens_memory) |->
        IF /\ reset_tokens_memory[i].token = token
           /\ \A j \in 1..(i - 1) : reset_tokens_memory[j].token # token
          THEN [reset_tokens_memory[i] EXCEPT !.used = TRUE]
          ELSE reset_tokens_memory[i]]

use_reset_token(token, new_password) ==
    LET token_doc == verify_reset_token(token)
    IN  /\ IF token_doc = None
              THEN /\ returned' = Returned("use_reset_token", token, False)
                   /\ UNCHANGED <<users_memory, reset_tokens_memory>>
              ELSE IF user_updated(token_doc.user_id)
                     THEN /\ users_memory' =
                                update_user(token_doc.user_id,
                                            generate_password_hash(new_password))
                          /\ reset_tokens_memory' = marked_used(token)
                          /\ returned' = Returned("use_reset_token", token, True)
                     ELSE /\ returned' = Returned("use_reset_token", token, None)
                          /\ UNCHANGED <<users_memory, reset_tokens_memory>>
        /\ UNCHANGED <<utcnow, issued>>

(* datetime.utcnow() read later. *)
Tick ==
    /\ utcnow < MaxClock
    /\ utcnow' = utcnow + 1
    /\ UNCHANGED <<users_memory, reset_tokens_memory, issued, returned>>

(* The tokens a caller may present: those drawn so far and one never drawn. *)
Presented ==
    {token_urlsafe(k) : k \in 0..issued}

NewPasswords ==
    {"new", "newer"}

NextReset ==
    /\ UNCHANGED outside_app4
    /\ \/ create_user("ann@zyra.com", "123")
       \/ \E email \in Emails : create_password_reset_token(email)
       \/ \E token \in Presented : verify(token)
       \/ \E token \in Presented, pw \in NewPasswords : use_reset_token(token, pw)
       \/ Tick

SpecReset ==
    Init /\ [][NextReset]_vars

(* ---- src/app.py: documents (POST) ---- *)

(* The request arrives with an allowed file; the first candidate name. *)
documents_post(r, filename, content) ==
    /\ posts[r].pc = "idle"
    /\ Cardinality(DOMAIN UPLOAD_FOLDER)
          + Cardinality({q \in Reqs : posts[q].pc # "idle"}) < MaxFiles
    /\ posts' = [posts EXCEPT ![r] =
                   [pc |-> "exists", name |-> secure_filename(filename),
                    final_name |-> secure_filename(filename), counter |-> 1,
                    file |-> content]]
    /\ UNCHANGED UPLOAD_FOLDER

(* One test of the while loop: os.path.exists on the candidate. *)
documents_exists(r) ==
    LET q == posts[r]
    IN  /\ q.pc = "exists"
        /\ posts' = [posts EXCEPT ![r] =
                       IF q.final_name \in DOMAIN UPLOAD_FOLDER
                         THEN [q EXCEPT !.final_name = Append(q.name, q.counter),
                                        !.counter = q.counter + 1]
                         ELSE [q EXCEPT !.pc = "save"]]
        /\ UNCHANGED UPLOAD_FOLDER

(* file.save: the file is written under the name, whatever was there. *)
documents_save(r) ==
    LET q == posts[r]
    IN  /\ q.pc = "save"
        /\ UPLOAD_FOLDER' = [f \in DOMAIN UPLOAD_FOLDER \cup {q.final_name} |->
                                IF f = q.final_name THEN q.file ELSE UPLOAD_FOLDER[f]]
        /\ posts' = [posts EXCEPT ![r] = NoPost]

NextUpload ==
    /\ UNCHANGED outside_app
    /\ \/ \E r \in Reqs, filename \in Filenames, content \in FileContents :
             documents_post(r, filename, content)
       \/ \E r \in Reqs : documents_exists(r)
       \/ \E r \in Reqs : documents_save(r)

SpecUpload ==
    Init /\ [][NextUpload]_vars

(* ---- src/app2.py: booking routes ---- *)

(* bookings.find_one({"_id": oid}) *)
find_one(oid) ==
    LET hits == {doc \in mongo_bookings : doc.id = oid}
    IN  IF hits = {} THEN None ELSE CHOOSE doc \in hits : TRUE

create_booking(data) ==
    /\ IF data.destination = ""
          THEN /\ reply' = Reply("create_booking", 400,
                                 "email, destination, start_date, end_date are required")
               /\ UNCHANGED <<mongo_bookings, inserted>>
          ELSE IF data.email \notin mongo_users
                 THEN /\ reply' = Reply("create_booking", 404, "User does not exist")
                      /\ UNCHANGED <<mongo_bookings, inserted>>
                 ELSE /\ inserted < MaxInserted
                      /\ mongo_bookings' = mongo_bookings \cup
                            { [id |-> [oid |-> inserted + 1],
                               email |-> data.email,
                               status |-> "confirmed",
                               created_at |-> datetime(now),
                               updated_at |-> datetime(now),
                               cancelled_at |-> None] }
                      /\ inserted' = inserted + 1
                      /\ reply' = Reply("create_booking", 201, "Booking created")
    /\ UNCHANGED now

(* A cancel that writes again on a booking already cancelled. *)
cancel_booking_writing_again(booking_id) ==
    LET oid == get_object_id(booking_id)
        doc == find_one(oid)
    IN  /\ IF oid = None
              THEN /\ reply' = Reply("cancel_booking", 400, "Invalid booking id")
                   /\ UNCHANGED mongo_bookings
              ELSE IF doc = None
                     THEN /\ reply' = Reply("cancel_booking", 404, "Booking not found")
                          /\ UNCHANGED mongo_bookings
                     ELSE /\ mongo_bookings' = (mongo_bookings \ {doc}) \cup
                                { [doc EXCEPT !.status = "cancelled",
                                              !.cancelled_at = datetime(now),
                                              !.updated_at = datetime(now)] }
                          /\ reply' = Reply("cancel_booking", 200,
                                            IF doc.status = "cancelled"
                                              THEN "Booking already cancelled"
                                              ELSE "Booking cancelled")
        /\ UNCHANGED <<inserted, now>>

cancel_booking(booking_id) ==
    LET oid == get_object_id(booking_id)
        doc == find_one(oid)
    IN  /\ IF oid = None
              THEN /\ reply' = Reply("cancel_booking", 400, "Invalid booking id")
                   /\ UNCHANGED mongo_bookings
              ELSE IF doc = None
                     THEN /\ reply' = Reply("cancel_booking", 404, "Booking not found")
                          /\ UNCHANGED mongo_bookings
                     ELSE IF doc.status = "cancelled"
                            THEN /\ reply' = Reply("cancel_booking", 200,
                                                   "Booking already cancelled")
                                 /\ UNCHANGED mongo_bookings
                            ELSE /\ mongo_bookings' = (mongo_bookings \ {doc}) \cup
                                       { [doc EXCEPT !.status = "cancelled",
                                                     !.cancelled_at = datetime(now),
                                                     !.updated_at = datetime(now)] }
                                 /\ reply' = Reply("cancel_booking", 200, "Booking cancelled")
        /\ UNCHANGED <<inserted, now>>

(* A window that still admits the booking at its last second. *)
allow_delete_at_the_limit(doc) ==
    \/ doc.status = "cancelled"
    \/ now - doc.created_at.seconds <= DELETE_WINDOW

(* allow_delete: cancelled, or created within the window. *)
allow_delete(doc) ==
    \/ doc.status = "cancelled"
    \/ now - doc.created_at.seconds < DELETE_WINDOW

delete_booking(booking_id) ==
    LET oid == get_object_id(booking_id)
        doc == find_one(oid)
    IN  /\ IF oid = None
              THEN /\ reply' = Reply("delete_booking", 400, "Invalid booking id")
                   /\ UNCHANGED mongo_bookings
              ELSE IF doc = None
                     THEN /\ reply' = Reply("delete_booking", 404, "Booking not found")
                          /\ UNCHANGED mongo_bookings
                     ELSE IF ~allow_delete(doc)
                            THEN /\ reply' = Reply("delete_booking", 403,
                                                   "Deletion not allowed for this booking")
                                 /\ UNCHANGED mongo_bookings
                            ELSE /\ mongo_bookings' = mongo_bookings \ {doc}
                                 /\ reply' = Reply("delete_booking", 200, "Booking deleted")
        /\ UNCHANGED <<inserted, now>>

(* Time passes until a later request. *)
Pass ==
    /\ \E later \in Instants : later > now /\ now' = later
    /\ UNCHANGED <<mongo_bookings, inserted, reply>>

NextMongo ==
    /\ UNCHANGED outside_app2
    /\ \/ \E data \in BookingBodies : create_booking(data)
       \/ \E booking_id \in IdStrings : cancel_booking(booking_id)
       \/ \E booking_id \in IdStrings : delete_booking(booking_id)
       \/ Pass

SpecMongo ==
    Init /\ [][NextMongo]_vars

----------------------------------------------------------------------------
(* The total rule as the specification words it: selection.price plus the *)
(* sum of the add-on values that are numeric, rounded to two decimals,     *)
(* everything else counting 0.  Numeric is what converts to a number: a    *)
(* JSON number, a string spelling one, and true (1) or false (0).          *)

NumericValue(v) ==
    CASE v.kind \in {"number", "numeric_string"} -> v.n
      [] v.kind = "bool" -> v.n * 1000
      [] OTHER -> 0

RulePrice(sel) ==
    IF sel.kind = "object" /\ \E i \in 1..Len(sel.items) : sel.items[i].key = "price"
    THEN NumericValue(sel.items[CHOOSE i \in 1..Len(sel.items) : sel.items[i].key = "price"].val)
    ELSE 0

RECURSIVE RuleSum(_, _)
RuleSum(items, i) ==
    IF i > Len(items) THEN 0 ELSE NumericValue(items[i].val) + RuleSum(items, i + 1)

RuleTotal(b) ==
    LET mills == RulePrice(b.selection_data)
                 + (IF b.addons_data.kind = "object" THEN RuleSum(b.addons_data.items, 1) ELSE 0)
    IN  IF mills % 10 >= 5 THEN mills \div 10 + 1 ELSE mills \div 10

Slots(b) ==
    <<b.search_data, b.selection_data, b.travelers_data, b.addons_data, b.review_data>>

(* The caller may act on the booking: it is unbound or the caller's own. *)
Permitted(u, bid) ==
    Found(bid) /\ bookings[bid].user_id \in {NoUser, u}

(* Some request of user u that names booking bid. *)
RequestBy(u, bid) ==
    \/ \E step \in 0..5, data \in {SelA} : save_step(u, bid, step, data)
    \/ confirm_booking(u, bid)
    \/ \E outcome \in {"created", "error"} : create_payment_intent(u, bid, outcome)
    \/ \E pi \in IntentIds : \E outcome \in ConfirmOutcomes(pi) : pay(u, bid, pi, outcome)
    \/ cancel(u, bid)

----------------------------------------------------------------------------
(* C1: after any sequence of completed requests, every stored booking's   *)
(* total_amount is the total rule applied to its stored selection and      *)
(* add-on data.                                                            *)
C1_TotalIsRecomputed ==
    \A i \in 1..Len(bookings) : bookings[i].total_amount = RuleTotal(bookings[i])

C1_Witness ==
    /\ Len(payments) > 0
    /\ \E i \in 1..Len(bookings) :
          /\ bookings[i].selection_data = SelA
          /\ bookings[i].addons_data = Mixed
          /\ bookings[i].total_amount = 53763

(* C2: a cancelled booking stays cancelled, and a confirmed booking never  *)
(* returns to draft or in_progress.                                        *)
C2_NoWayBack ==
    [][\A i \in 1..Len(bookings) :
          /\ bookings[i].status = "cancelled" => bookings'[i].status = "cancelled"
          /\ bookings[i].status = "confirmed"
                => bookings'[i].status \notin {"draft", "in_progress"}]_vars

(* C3: the owner of a bound booking never changes, and every request of a  *)
(* different authenticated user for it is answered 403, leaves every       *)
(* booking as it was and creates no Payment.                               *)
C3_OwnershipPermanent ==
    [][/\ \A i \in 1..Len(bookings) :
             bookings[i].user_id # NoUser => bookings'[i].user_id = bookings[i].user_id
       /\ \A u \in Users, bid \in 1..Len(bookings) :
             (bookings[bid].user_id \notin {NoUser, u} /\ RequestBy(u, bid))
                => /\ last'.code = 403
                   /\ bookings' = bookings
                   /\ payments' = payments]_vars

C3_Witness ==
    /\ last.op = "pay"
    /\ last.code = 403
    /\ Len(intents) > 0
    /\ \E i \in 1..Len(bookings) : bookings[i].user_id = "alice"

(* C4: no two Payment rows carry the same processor intent as their       *)
(* transaction reference.                                                  *)
C4_OnePaymentPerIntent ==
    \A i, j \in 1..Len(payments) : i # j => payments[i].txn_ref # payments[j].txn_ref

(* A pay request the code lets through to the amount check: the caller is  *)
(* permitted and the intent ends succeeded.                                *)
PayReachesAmountCheck(u, bid, pi, outcome) ==
    /\ pay(u, bid, pi, outcome)
    /\ Permitted(u, bid)
    /\ pi \in 1..Len(intents)
    /\ \/ intents[pi].status = "succeeded"
       \/ intents[pi].status = "requires_confirmation" /\ outcome = "succeeded"

(* C5: a pay request whose intent amount differs from the booking's total  *)
(* in minor units (cents) fails with amount-mismatch, creates no Payment   *)
(* and leaves the status as it was.                                        *)
C5_MismatchRejected ==
    [][\A u \in Users, bid \in 1..Len(bookings), pi \in 1..Len(intents) :
          \A outcome \in ConfirmOutcomes(pi) :
             (PayReachesAmountCheck(u, bid, pi, outcome)
                /\ intents[pi].amount # RuleTotal(bookings[bid]))
                => /\ last'.error = "Amount mismatch"
                   /\ payments' = payments
                   /\ bookings'[bid].status = bookings[bid].status]_vars

(* C6: a pay request that succeeds adds exactly one Payment, for this      *)
(* booking, with status success, the intent as transaction reference and   *)
(* the booking's total as amount, which in minor units (cents) is the      *)
(* intent's amount; and the booking is confirmed.                          *)
C6_SuccessRecordsPayment ==
    [][\A u \in Users, bid \in 1..Len(bookings), pi \in 1..Len(intents) :
          \A outcome \in ConfirmOutcomes(pi) :
             (pay(u, bid, pi, outcome) /\ last'.code = 201)
                => /\ Len(payments') = Len(payments) + 1
                   /\ SubSeq(payments', 1, Len(payments)) = payments
                   /\ LET p == payments'[Len(payments')]
                      IN  /\ p.booking_id = bid
                          /\ p.status = "success"
                          /\ p.txn_ref = pi
                          /\ p.amount = bookings'[bid].total_amount
                          /\ p.amount = intents[pi].amount
                   /\ bookings'[bid].status = "confirmed"]_vars

(* The next page of each step, as the hint table lists it. *)
C7_Page(step) ==
    CASE step = 0 -> "booking1.html"
      [] step = 1 -> "booking2.html"
      [] step = 2 -> "booking3.html"
      [] step = 3 -> "booking4.html"
      [] step = 4 -> "checkout.html"

(* C7 as stated: a saved step 0 to 3 answers the hint of the table, and    *)
(* step 4 answers no hint.                                                 *)
C7_NoHintAfterLastStep ==
    [][\A bid \in 0..Len(bookings), r \in WizardRequests :
          (last'.code = 200 /\ save_step("alice", bid, r[1], r[2]))
             => last'.next_url = IF r[1] = 4 THEN NoHint ELSE C7_Page(r[1])]_vars

(* C7: every saved step 0 to 4 answers the hint of the table, step 4 the   *)
(* checkout page; no saved step answers a null hint.                       *)
C7_HintForEveryStep ==
    [][\A bid \in 0..Len(bookings), r \in WizardRequests :
          (last'.code = 200 /\ save_step("alice", bid, r[1], r[2]))
             => /\ r[1] \in 0..4
                /\ last'.next_url = C7_Page(r[1])
                /\ last'.next_url # NoHint]_vars

C7_Witness ==
    /\ last.op = "save_step"
    /\ last.code = 200
    /\ last.next_url = "checkout.html"
    /\ \E i \in 1..Len(bookings) : bookings[i].review_data = SelA

(* The price, in cents, of the selections save_step(1) stores here. *)
C8_Price(sel) ==
    IF sel = SelA THEN 50000 ELSE 1999

(* C8 as stated: with a priced selection stored, saving step 3 with the    *)
(* add-ons nested under an addons key gives price + 20 + 15.5.             *)
C8_NestedAddonsSummed ==
    [][\A bid \in 1..Len(bookings) :
          (save_step("alice", bid, 3, Nested) /\ last'.code = 200
             /\ bookings[bid].selection_data \in {SelA, SelB})
             => bookings'[bid].total_amount
                   = C8_Price(bookings[bid].selection_data) + 3550]_vars

(* C8: with a priced selection stored, saving step 3 with the flat mapping *)
(* {meal: 20, insurance: 15.5} gives price + 35.5; with the same mapping   *)
(* nested under an addons key the total is the price alone.                *)
C8_FlatAddonsSummed ==
    [][\A bid \in 1..Len(bookings) :
          /\ (save_step("alice", bid, 3, AddA) /\ last'.code = 200
                /\ bookings[bid].selection_data \in {SelA, SelB})
                => bookings'[bid].total_amount
                      = C8_Price(bookings[bid].selection_data) + 3550
          /\ (save_step("alice", bid, 3, Nested) /\ last'.code = 200
                /\ bookings[bid].selection_data \in {SelA, SelB})
                => bookings'[bid].total_amount
                      = C8_Price(bookings[bid].selection_data)]_vars

C8_Witness ==
    /\ last.op = "save_step"
    /\ last.code = 200
    /\ \E i \in 1..Len(bookings) :
          /\ bookings[i].selection_data = SelA
          /\ bookings[i].addons_data = AddA
          /\ bookings[i].total_amount = 53550

(* C9: save_step of a step 0 to 4, on a new booking or one the caller may  *)
(* write, succeeds whatever the payload, stores the payload in the step's  *)
(* slot as given, and leaves a total in which every input that is missing  *)
(* or not numeric counts 0.                                                *)
C9_AnyPayloadAccepted ==
    [][\A bid \in 0..Len(bookings), r \in WizardRequests :
          (r[1] \in 0..4 /\ save_step("alice", bid, r[1], r[2])
             /\ (bid = 0 \/ Permitted("alice", bid)))
             => LET id == IF bid = 0 THEN Len(bookings) + 1 ELSE bid
                IN  /\ last'.code = 200
                    /\ Slots(bookings'[id])[r[1] + 1] = r[2]
                    /\ bookings'[id].total_amount = RuleTotal(bookings'[id])]_vars

C9_Witness ==
    /\ last.op = "save_step"
    /\ last.code = 200
    /\ \E i \in 1..Len(bookings) :
          /\ bookings[i].selection_data = NotMap
          /\ bookings[i].addons_data = Mixed
          /\ bookings[i].total_amount = 3763

(* C10: confirm of a booking that is unbound or the caller's answers 200,  *)
(* leaves it in_progress and owned by the caller with its slots and total  *)
(* as they were; on a booking already in_progress and owned by the caller  *)
(* it changes no booking.                                                  *)
C10_ConfirmIdempotent ==
    [][\A u \in Users, bid \in 1..Len(bookings) :
          (confirm_booking(u, bid) /\ Permitted(u, bid))
             => /\ last'.code = 200
                /\ bookings'[bid].status = "in_progress"
                /\ bookings'[bid].user_id = u
                /\ Slots(bookings'[bid]) = Slots(bookings[bid])
                /\ bookings'[bid].total_amount = bookings[bid].total_amount
                /\ (bookings[bid].status = "in_progress" /\ bookings[bid].user_id = u)
                      => bookings' = bookings]_vars

C10_Witness ==
    /\ last.op = "confirm"
    /\ last.code = 200
    /\ \E i \in 1..Len(bookings) :
          /\ bookings[i].status = "in_progress"
          /\ bookings[i].user_id = "bob"
          /\ bookings[i].selection_data = SelA

(* C11: cancel of a booking that is unbound or the caller's, whatever its  *)
(* status, answers 200 and leaves it cancelled with its slots and total as *)
(* they were; on a booking already cancelled and owned by the caller it    *)
(* changes no booking.                                                     *)
C11_CancelFromAnyStatus ==
    [][\A u \in Users, bid \in 1..Len(bookings) :
          (cancel(u, bid) /\ Permitted(u, bid))
             => /\ bookings[bid].status \in {"draft", "in_progress", "confirmed", "cancelled"}
                /\ last'.code = 200
                /\ bookings'[bid].status = "cancelled"
                /\ Slots(bookings'[bid]) = Slots(bookings[bid])
                /\ bookings'[bid].total_amount = bookings[bid].total_amount
                /\ payments' = payments
                /\ (bookings[bid].status = "cancelled" /\ bookings[bid].user_id = u)
                      => bookings' = bookings]_vars

(* A paid booking, cancelled. *)
C11_Witness ==
    /\ last.op = "cancel"
    /\ last.code = 200
    /\ Len(payments) > 0
    /\ \E i \in 1..Len(bookings) :
          /\ bookings[i].status = "cancelled"
          /\ payments[1].booking_id = i

(* C12: save_step without a booking id adds one booking after the stored   *)
(* ones, which stay as they were, owned by the caller if authenticated and *)
(* unowned if anonymous; any request of an authenticated user for an       *)
(* unowned booking leaves it owned by that user, an anonymous save_step    *)
(* leaves it unowned, and an owner once set is never replaced.             *)
C12_CreatedAndBoundOnce ==
    [][/\ \A u \in Callers, step \in {1, 5} :
             (Len(bookings') # Len(bookings) /\ save_step(u, 0, step, SelA))
                => /\ Len(bookings') = Len(bookings) + 1
                   /\ SubSeq(bookings', 1, Len(bookings)) = bookings
                   /\ bookings'[Len(bookings')].user_id
                         = IF is_authenticated(u) THEN u ELSE NoUser
       /\ \A bid \in 1..Len(bookings) :
             IF bookings[bid].user_id = NoUser
             THEN /\ \A u \in Users : bookings'[bid].user_id = u \/ ~RequestBy(u, bid)
                  /\ \/ bookings'[bid].user_id = NoUser
                     \/ ~\E step \in {1, 5} : save_step(Anonymous, bid, step, SelA)
             ELSE bookings'[bid].user_id = bookings[bid].user_id]_vars

(* An anonymous draft still unowned beside a second booking that a user's  *)
(* confirm has bound.                                                      *)
C12_Witness ==
    /\ Len(bookings) = 2
    /\ bookings[1].user_id = NoUser
    /\ bookings[2].user_id = "bob"
    /\ bookings[2].status = "in_progress"
    /\ last.op = "confirm"
    /\ last.code = 200

(* C13: save_step with a step beyond 4, by a caller the booking admits,    *)
(* answers 400 Invalid step and leaves the slots, the total and the status *)
(* of the addressed booking as they were; without a booking id the row it  *)
(* has created keeps its empty slots and total 0.                          *)
C13_InvalidStepWritesNothing ==
    [][\A u \in Callers, bid \in 0..Len(bookings) :
          (last'.op = "save_step" /\ save_step(u, bid, 5, SelA)
             /\ (bid = 0 \/ ~is_authenticated(u) \/ Permitted(u, bid)))
             => LET id == IF bid = 0 THEN Len(bookings) + 1 ELSE bid
                    before == IF bid = 0 THEN BookingDefaults ELSE bookings[bid]
                IN  /\ last'.code = 400
                    /\ last'.error = "Invalid step"
                    /\ Slots(bookings'[id]) = Slots(before)
                    /\ bookings'[id].total_amount = before.total_amount
                    /\ bookings'[id].status = before.status
                    /\ payments' = payments]_vars

(* A booking with a stored selection after a rejected step. *)
C13_Witness ==
    /\ last.op = "save_step"
    /\ last.code = 400
    /\ last.error = "Invalid step"
    /\ \E i \in 1..Len(bookings) :
          /\ bookings[i].selection_data = SelA
          /\ bookings[i].total_amount = 50000

(* C14: pay on an intent neither in requires_confirmation nor succeeded    *)
(* answers Payment not ready without a call to the processor; an intent    *)
(* already succeeded is used as it is; one in requires_confirmation is     *)
(* confirmed first, and answers Payment failed if it is not succeeded      *)
(* then; a request that fails adds no Payment and leaves the status, and a *)
(* request adds a Payment and confirms the booking only with the intent    *)
(* succeeded.                                                              *)
C14_OnlySucceededIntentPays ==
    [][\A bid \in 1..Len(bookings), pi \in 1..Len(intents) :
          \A outcome \in ConfirmOutcomes(pi) :
             (last'.op = "pay" /\ pay("alice", bid, pi, outcome))
                => LET st == intents[pi].status
                   IN  /\ st \notin {"requires_confirmation", "succeeded"}
                             => (last'.error = "Payment not ready" /\ intents' = intents)
                       /\ st = "succeeded" => intents' = intents
                       /\ st = "requires_confirmation" /\ outcome = "succeeded"
                             => intents'[pi].status = "succeeded"
                       /\ st = "requires_confirmation" /\ outcome = "requires_action"
                             => (last'.error = "Payment failed"
                                   /\ intents'[pi].status = "requires_action")
                       /\ last'.code # 201
                             => /\ last'.code = 400
                                /\ payments' = payments
                                /\ bookings'[bid].status = bookings[bid].status
                       /\ (payments' # payments \/ bookings'[bid].status # bookings[bid].status)
                             => /\ last'.code = 201
                                /\ intents'[pi].status = "succeeded"
                                /\ Len(payments') = Len(payments) + 1
                                /\ bookings'[bid].status = "confirmed"]_vars

(* A confirmation that ended in requires_action: no Payment, no confirmed  *)
(* booking.                                                                *)
C14_Witness ==
    /\ last.op = "pay"
    /\ last.error = "Payment failed"
    /\ Len(intents) = 1
    /\ intents[1].status = "requires_action"
    /\ payments = <<>>
    /\ bookings[1].status = "in_progress"

(* C15: create_payment_intent asks the processor for at most one intent,   *)
(* of the booking's total in minor units (cents) and tagged with the       *)
(* booking; a failure of the processor is answered as a provider error     *)
(* with no intent made; and either way the booking's status, slots and     *)
(* total and the Payment rows stay as they were.                           *)
C15_IntentForTheTotal ==
    [][\A bid \in 1..Len(bookings), outcome \in {"created", "error"} :
          (last'.op = "create_payment_intent"
             /\ create_payment_intent("alice", bid, outcome))
             => /\ outcome = "created"
                      => /\ last'.code = 200
                         /\ Len(intents') = Len(intents) + 1
                         /\ SubSeq(intents', 1, Len(intents)) = intents
                         /\ intents'[Len(intents')].booking_id = bid
                         /\ intents'[Len(intents')].amount = RuleTotal(bookings[bid])
                /\ outcome = "error"
                      => /\ last'.code = 400
                         /\ last'.error = "provider error"
                         /\ intents' = intents
                /\ bookings'[bid].status = bookings[bid].status
                /\ Slots(bookings'[bid]) = Slots(bookings[bid])
                /\ bookings'[bid].total_amount = bookings[bid].total_amount
                /\ payments' = payments]_vars

(* C16: a booking becomes confirmed only by a pay request made while it is *)
(* in_progress.                                                            *)
C16_ConfirmedOnlyFromInProgress ==
    [][\A i \in 1..Len(bookings) :
          (bookings'[i].status = "confirmed" /\ bookings[i].status # "confirmed")
             => (bookings[i].status = "in_progress" /\ last'.op = "pay")]_vars

(* C17: confirm, create_payment_intent, pay and cancel by an anonymous     *)
(* caller are answered 401 whether the booking named exists or not, and    *)
(* leave every booking, every intent at the processor and every Payment as *)
(* they were; save_step by an anonymous caller is served.                  *)
C17_LoginRequired ==
    [][/\ \A bid \in 1..(Len(bookings) + 1) :
             (/\ last'.op # "save_step"
              /\ \/ confirm_booking(Anonymous, bid)
                 \/ cancel(Anonymous, bid)
                 \/ \E outcome \in {"created", "error"} :
                       create_payment_intent(Anonymous, bid, outcome)
                 \/ \E pi \in IntentIds : \E outcome \in ConfirmOutcomes(pi) :
                       pay(Anonymous, bid, pi, outcome))
                => /\ last'.code = 401
                   /\ bookings' = bookings
                   /\ intents' = intents
                   /\ payments' = payments
       /\ \A bid \in 0..Len(bookings) :
             (last'.op = "save_step" /\ save_step(Anonymous, bid, 1, SelA))
                => /\ last'.code = 200
                   /\ bookings'[IF bid = 0 THEN Len(bookings') ELSE bid].selection_data = SelA
      ]_vars

(* An anonymous pay turned away, with a draft and a succeeded intent of    *)
(* the processor at hand.                                                  *)
C17_Witness ==
    /\ last.op = "pay"
    /\ last.code = 401
    /\ Len(intents) > 0
    /\ intents[1].status = "succeeded"
    /\ payments = <<>>
    /\ \E i \in 1..Len(bookings) :
          bookings[i].status = "draft" /\ bookings[i].selection_data = SelA

(* C19: the minor units of every stored total are the total times 100     *)
(* rounded, and a pay request that reaches the amount check answers        *)
(* Amount mismatch exactly when the intent's amount differs from them.     *)
C19_RoundedMinorUnits ==
    [][/\ \A i \in 1..Len(bookings') :
             ToMinorUnits(bookings'[i].total_amount) = RuleTotal(bookings'[i])
       /\ \A bid \in 1..Len(bookings), pi \in 1..Len(intents) :
             \A outcome \in ConfirmOutcomes(pi) :
                (last'.op = "pay" /\ PayReachesAmountCheck("alice", bid, pi, outcome))
                   => (last'.error = "Amount mismatch"
                         <=> intents[pi].amount # RuleTotal(bookings[bid]))]_vars

(* C18: with requests of different users overlapping on one booking, an    *)
(* owner once written is never replaced, and a request that gets past the  *)
(* ownership check to its answer is the owner's.                           *)
C18_OneOwnerUnderOverlap ==
    [][/\ \A i \in 1..Len(bookings) :
             bookings[i].user_id # NoUser => bookings'[i].user_id = bookings[i].user_id
       /\ \A r \in Reqs :
             (inflight[r].pc = "write" /\ inflight'[r].pc = "idle")
                => bookings'[inflight[r].bid].user_id = inflight[r].u]_vars

(* C20: once the overlapping save_step requests have all committed, every  *)
(* stored total is the total rule applied to the stored selection and      *)
(* add-on data.                                                            *)
C20_TotalAfterOverlap ==
    (\A r \in Reqs : inflight[r].pc = "idle")
       => \A i \in 1..Len(bookings) : bookings[i].total_amount = RuleTotal(bookings[i])

(* C21: a save_step answered 400 leaves the table with the rows it had and *)
(* every row with the owner it had.                                        *)
C21_FailedStepChangesNothing ==
    [][\A u \in Callers, bid \in 0..Len(bookings) :
          (last'.op = "save_step" /\ last'.code = 400 /\ save_step(u, bid, 5, SelA))
             => /\ Len(bookings') = Len(bookings)
                /\ \A i \in 1..Len(bookings) :
                      bookings'[i].user_id = bookings[i].user_id]_vars

(* C22: save_step of an anonymous caller on a booking bound to a user is   *)
(* refused and leaves its slots and total as they were.                    *)
C22_AnonymousCannotWriteBound ==
    [][\A bid \in 1..Len(bookings) :
          (last'.op = "save_step" /\ bookings[bid].user_id # NoUser
             /\ save_step(Anonymous, bid, 1, SelA))
             => /\ last'.code # 200
                /\ Slots(bookings'[bid]) = Slots(bookings[bid])
                /\ bookings'[bid].total_amount = bookings[bid].total_amount]_vars

(* C23: a confirmed booking has a success Payment of its current total.   *)
C23_ConfirmedTotalIsPaid ==
    \A i \in 1..Len(bookings) :
       bookings[i].status = "confirmed"
          => \E k \in 1..Len(payments) :
                /\ payments[k].booking_id = i
                /\ payments[k].status = "success"
                /\ payments[k].amount = bookings[i].total_amount

(* C24: every Payment is of the booking its intent was created for, and    *)
(* the Payments of one intent are of one booking.                          *)
C24_IntentPaysItsBooking ==
    /\ \A k \in 1..Len(payments) :
          intents[payments[k].txn_ref].booking_id = payments[k].booking_id
    /\ \A k, l \in 1..Len(payments) :
          payments[k].txn_ref = payments[l].txn_ref
             => payments[k].booking_id = payments[l].booking_id

(* C25: a pay request that has the processor confirm an intent, from       *)
(* requires_confirmation to succeeded, records the Payment and confirms    *)
(* the booking.                                                            *)
C25_NoChargeWithoutRecord ==
    [][\A bid \in 1..Len(bookings), pi \in 1..Len(intents) :
          (/\ last'.op = "pay"
           /\ intents[pi].status = "requires_confirmation"
           /\ intents'[pi].status = "succeeded"
           /\ pay("alice", bid, pi, "succeeded"))
             => /\ last'.code = 201
                /\ Len(payments') = Len(payments) + 1
                /\ bookings'[bid].status = "confirmed"]_vars

(* C26: a save_step that is served leaves the payload in the slot of its   *)
(* step and the other four slots and the status as they were, whatever the *)
(* status is.                                                              *)
C26_OnlyTheStepsSlot ==
    [][\A bid \in 0..Len(bookings), r \in SlotRequests :
          (last'.op = "save_step" /\ last'.code = 200
             /\ save_step("alice", bid, r[1], r[2]))
             => LET id == IF bid = 0 THEN Len(bookings) + 1 ELSE bid
                    before == IF bid = 0 THEN BookingDefaults ELSE bookings[bid]
                IN  /\ before.status \in {"draft", "in_progress", "confirmed", "cancelled"}
                    /\ \A k \in 1..5 :
                          Slots(bookings'[id])[k]
                             = IF k = r[1] + 1 THEN r[2] ELSE Slots(before)[k]
                    /\ bookings'[id].status = before.status]_vars

(* A paid, confirmed booking with every slot written, a step just saved.   *)
C26_Witness ==
    /\ last.op = "save_step"
    /\ last.code = 200
    /\ Len(payments) > 0
    /\ \E i \in 1..Len(bookings) :
          /\ bookings[i].status = "confirmed"
          /\ bookings[i].selection_data = SelB
          /\ bookings[i].addons_data = AddA
          /\ bookings[i].review_data = SelA
          /\ payments[1].amount # bookings[i].total_amount

(* C27: a reset token is single-use and expires.  Once use_reset_token has  *)
(* returned True for a token, verify_reset_token returns no document for   *)
(* it ever after; a token past its expiry does not verify; and a           *)
(* use_reset_token of a token that does not verify changes no password.    *)
C27_SingleUseAndExpiring ==
    /\ \A k \in 1..MaxTokens :
          [](   (returned.op = "use_reset_token"
                   /\ returned.token = token_urlsafe(k) /\ returned.value = True)
             => [](verify_reset_token(token_urlsafe(k)) = None))
    /\ [](\A i \in 1..Len(reset_tokens_memory) :
             reset_tokens_memory[i].expiry <= utcnow
                => verify_reset_token(reset_tokens_memory[i].token) = None)
    /\ [][\A token \in Presented, pw \in NewPasswords :
             (verify_reset_token(token) = None /\ use_reset_token(token, pw))
                => /\ users_memory' = users_memory
                   /\ returned'.value = False]_vars

(* A second use of a spent token, still inside its life, was turned away,  *)
(* and the password is the one the first use set.                          *)
C27_Witness ==
    /\ returned = Returned("use_reset_token", token_urlsafe(1), False)
    /\ \E i \in 1..Len(reset_tokens_memory) :
          /\ reset_tokens_memory[i].token = token_urlsafe(1)
          /\ reset_tokens_memory[i].used
          /\ reset_tokens_memory[i].expiry > utcnow
    /\ users_memory[1].password = generate_password_hash("new")

(* C28: at most one reset token is stored per email.  For an email with a   *)
(* user, create_password_reset_token stores the new token alone under that *)
(* email, no token stored for it before verifies afterwards, and the       *)
(* tokens of the other emails stay as they were; for an email with no user *)
(* it returns None and stores nothing.                                     *)
C28_OneTokenPerEmail ==
    /\ [](\A i, j \in 1..Len(reset_tokens_memory) :
             reset_tokens_memory[i].email = reset_tokens_memory[j].email => i = j)
    /\ [][\A email \in Emails :
             create_password_reset_token(email)
                => IF find_by_email(email) = None
                     THEN /\ returned'.value = None
                          /\ reset_tokens_memory' = reset_tokens_memory
                     ELSE /\ \A i \in 1..Len(reset_tokens_memory), k \in 1..MaxTokens :
                               (/\ reset_tokens_memory[i].email = email
                                /\ reset_tokens_memory[i].token = token_urlsafe(k))
                                  => (verify_reset_token(token_urlsafe(k)))' = None
                          /\ SelectSeq(reset_tokens_memory', LAMBDA t : t.email # email)
                                = SelectSeq(reset_tokens_memory, LAMBDA t : t.email # email)
                          /\ \E i \in 1..Len(reset_tokens_memory'), k \in 1..MaxTokens :
                               /\ returned'.value = token_urlsafe(k)
                               /\ reset_tokens_memory'[i].email = email
                               /\ reset_tokens_memory'[i].token = token_urlsafe(k)
                               /\ (verify_reset_token(token_urlsafe(k)))'
                                     = reset_tokens_memory'[i]]_vars

(* The second token of one email was replaced by the third while the token *)
(* of another email stayed.                                                *)
C28_Witness ==
    /\ returned = Returned("create_password_reset_token", None, token_urlsafe(3))
    /\ Len(reset_tokens_memory) = 2
    /\ reset_tokens_memory[1].email = "ann@zyra.com"
    /\ reset_tokens_memory[1].token = token_urlsafe(1)
    /\ reset_tokens_memory[2].email = "test@test.com"
    /\ reset_tokens_memory[2].token = token_urlsafe(3)

(* C29: an upload never overwrites a file.  The name a file is saved under *)
(* is not the name of a file in the upload folder at the time it is        *)
(* saved, also when the checks and saves of two uploads interleave.        *)
C29_NeverOverwrites ==
    [][\A r \in Reqs :
          documents_save(r) => posts[r].final_name \notin DOMAIN UPLOAD_FOLDER]_vars

(* C30: delete_booking removes a booking only if it is cancelled or was    *)
(* created less than 600 seconds before the request; any other stored      *)
(* booking gets 403 and stays; the id of no stored booking gets 404 and    *)
(* nothing is deleted.                                                     *)
C30_DeleteOnlyCancelledOrRecent ==
    [][\A booking_id \in IdStrings :
          (reply'.op = "delete_booking" /\ booking_id.hex /\ delete_booking(booking_id))
             => LET asked == {doc \in mongo_bookings : doc.id.oid = booking_id.oid}
                    deletable == {doc \in asked :
                                    \/ doc.status = "cancelled"
                                    \/ now - doc.created_at.seconds < 600}
                IN  /\ mongo_bookings' \subseteq mongo_bookings
                    /\ (mongo_bookings \ mongo_bookings') \subseteq deletable
                    /\ asked = {} => (reply'.code = 404 /\ mongo_bookings' = mongo_bookings)
                    /\ (asked # {} /\ deletable = {})
                          => (reply'.code = 403 /\ mongo_bookings' = mongo_bookings)]_vars

(* A confirmed booking exactly 600 seconds old was refused and is stored;  *)
(* the other booking made has been deleted.                                *)
C30_Witness ==
    /\ reply = Reply("delete_booking", 403, "Deletion not allowed for this booking")
    /\ inserted = 2
    /\ Cardinality(mongo_bookings) = 1
    /\ \E doc \in mongo_bookings :
          /\ doc.status = "confirmed"
          /\ now - doc.created_at.seconds = 600

(* C31: a booking is created with status confirmed; the first cancel sets  *)
(* status cancelled and cancelled_at; a cancel of a booking already        *)
(* cancelled answers 200 and leaves status, cancelled_at and updated_at as *)
(* they were; and no step takes a stored booking from cancelled back to    *)
(* confirmed.                                                              *)
C31_CancelIdempotent ==
    /\ [][\A data \in BookingBodies :
             (reply'.code = 201 /\ create_booking(data))
                => \E doc \in mongo_bookings' \ mongo_bookings :
                      /\ mongo_bookings' = mongo_bookings \cup {doc}
                      /\ doc.status = "confirmed"
                      /\ doc.cancelled_at = None]_vars
    /\ [][\A booking_id \in IdStrings, doc \in mongo_bookings :
             (/\ reply'.op = "cancel_booking"
              /\ booking_id.hex
              /\ doc.id.oid = booking_id.oid
              /\ cancel_booking(booking_id))
                => /\ reply'.code = 200
                   /\ \E after \in mongo_bookings' :
                         /\ after.id = doc.id
                         /\ after.status = "cancelled"
                         /\ after.cancelled_at # None
                         /\ IF doc.status = "cancelled"
                              THEN /\ after.cancelled_at = doc.cancelled_at
                                   /\ after.updated_at = doc.updated_at
                              ELSE after.cancelled_at = [seconds |-> now]]_vars
    /\ [][\A doc \in mongo_bookings, after \in mongo_bookings' :
             (doc.id = after.id /\ doc.status = "cancelled")
                => after.status = "cancelled"]_vars

(* A second cancel, later than the first, was answered as already          *)
(* cancelled and the times of the first cancel are still stored.           *)
C31_Witness ==
    /\ reply = Reply("cancel_booking", 200, "Booking already cancelled")
    /\ \E doc \in mongo_bookings :
          /\ doc.status = "cancelled"
          /\ doc.cancelled_at # None
          /\ doc.created_at.seconds < doc.updated_at.seconds
          /\ doc.updated_at = doc.cancelled_at
          /\ doc.updated_at.seconds < now

====
